---- MODULE Spec2Model ----
(***************************************************************************)
(* arriba: a Slack bot that keeps, per conversation, the latest standup    *)
(* message of every user (src/main.go).                                    *)
(*                                                                         *)
(* Strings that the code inspects character by character are sequences of  *)
(* tokens: a conversation ID is <<"C", "1">>, a message text is a sequence *)
(* of mention tokens ("<@B1>"), ":", " ", "\n" and word tokens.  A raw     *)
(* Slack timestamp "sec.frac" is the sequence of its dot-separated integer *)
(* fields, <<sec, frac>>.                                                  *)
(***************************************************************************)
EXTENDS Integers, Sequences, FiniteSets, TLC

VARIABLES
    now,            \* the wall clock, time.Now().UTC()
    botID,          \* arriba.botID
    botName,        \* arriba.botName
    extractMsgRE,   \* arriba.extractMsgRE: the bot ID the pattern was compiled for
    standups,       \* arriba.standups: conversation ID -> (user ID -> standupMsg)
    pc,             \* position of the single event-loop thread
    conversations,  \* retrieveStandups: the conversations still to backfill
    history,        \* the backend's history of the conversation being backfilled
    params,         \* retrieveChannelStandup: params (Latest, Oldest, Inclusive, Count)
    cstandup,       \* retrieveChannelStandup: cstandup, the map being accumulated
    fetchErr,       \* retrieveChannelStandup: the error it returns
    lastEv,         \* the event most recently received from rtm.IncomingEvents
    sent,           \* messages handed to rtm.SendMessage while handling lastEv
    script          \* the round trip: status updates still to apply live

vars == <<now, botID, botName, extractMsgRE, standups, pc, conversations,
          history, params, cstandup, fetchErr, lastEv, sent, script>>

----------------------------------------------------------------------------
(* Bounds of the model *)

\* the clock runs over days 0 .. MaxDay
MaxDay == 2
\* a conversation's history holds at most MaxHistory messages
MaxHistory == 2
\* messages of day 1 are stamped 0 .. MaxFrac microseconds after its start
MaxFrac == 2
\* the round trip applies at most MaxScript live status updates
MaxScript == 3
\* the texts handed to the extractor hold at most MaxText tokens
MaxText == 3
\* at most MaxQueue events wait on rtm.IncomingEvents
MaxQueue == 3
\* the paginated history holds at most MaxWindow messages inside the window
MaxWindow == 3

(* Program constants *)

\* time.Time.AddDate(0, 0, -n) in UTC moves by n * 86400 seconds
DaySeconds == 86400
\* time.Unix(sec, nsec) normalises nsec into [0, 1e9)
NanosPerSecond == 1000000000
\* params.Count
HistoryCount == 1000
\* the -history-limit flag (days), at least 1
historyDaysLimit == 1

----------------------------------------------------------------------------
(* time.Time *)

\* An instant is the number of its UTC day (day 0 starts at the Unix epoch),
\* the second within that day and the nanosecond within that second: the
\* zero time.Time lies too many seconds before the epoch to count them.
Unix(sec, nsec) ==
    LET s == sec + (nsec \div NanosPerSecond)
    IN  [day |-> s \div DaySeconds, sec |-> s % DaySeconds, nsec |-> nsec % NanosPerSecond]

\* time.Time{}: January 1, year 1, 00:00:00 UTC, 719162 days before the epoch
ZeroTime == [day |-> -719162, sec |-> 0, nsec |-> 0]

\* t.Unix(): the seconds since the epoch
UnixSeconds(t) == t.day * DaySeconds + t.sec

Before(t, u) ==
    \/ t.day < u.day
    \/ t.day = u.day /\ t.sec < u.sec
    \/ t.day = u.day /\ t.sec = u.sec /\ t.nsec < u.nsec

After(t, u) ==
    \/ t.day > u.day
    \/ t.day = u.day /\ t.sec > u.sec
    \/ t.day = u.day /\ t.sec = u.sec /\ t.nsec > u.nsec

\* t.AddDate(0, 0, days) in UTC: the same time of day, days later
AddDate(t, days) == [t EXCEPT !.day = @ + days]

\* fmt.Sscanf(ts, "%d.%d", &seconds, &milliseconds): needs two integer fields;
\* on failure the function returns time.Now() and the error
parseSlackTimeStamp(ts, clock) ==
    IF Len(ts) < 2
    THEN [t |-> clock, err |-> TRUE]
    ELSE [t |-> Unix(ts[1], ts[2] * 1000), err |-> FALSE]

----------------------------------------------------------------------------
(* The extraction pattern of line 19: at a line start, optional whitespace, *)
(* the mention of the bot, an optional colon, optional whitespace, then the *)
(* rest of the line as the group msg.                                      *)

Mention(id) == CASE id = "B1" -> "<@B1>"
                 [] id = "B2" -> "<@B2>"
                 [] OTHER -> "<@>"

IsSpace(tok) == tok \in {" ", "\n"}

\* first position >= i holding no whitespace (Len(s) + 1 when there is none)
RECURSIVE SkipSpaces(_, _)
SkipSpaces(s, i) ==
    IF i <= Len(s) /\ IsSpace(s[i]) THEN SkipSpaces(s, i + 1) ELSE i

\* first position >= i where $ matches: before a newline or at the end
RECURSIVE LineEnd(_, _)
LineEnd(s, i) ==
    IF i <= Len(s) /\ s[i] # "\n" THEN LineEnd(s, i + 1) ELSE i

\* ^ matches at the start of the text and after every newline
AtLineStart(s, i) == i = 1 \/ s[i - 1] = "\n"

\* the pattern without its line-start anchor: the mention is found anywhere
MatchAtAnywhere(s, i, id) ==
    LET m == SkipSpaces(s, i)
        c == m + 1
        w == IF c <= Len(s) /\ s[c] = ":" THEN c + 1 ELSE c
        g == SkipSpaces(s, w)
        e == LineEnd(s, g)
    IN  IF m <= Len(s) /\ s[m] = Mention(id)
        THEN [ok |-> TRUE, group |-> SubSeq(s, g, e - 1), end |-> e]
        ELSE [ok |-> FALSE, group |-> <<>>, end |-> i]

\* the match of the pattern that starts at position i, if there is one:
\* group is the captured text, end the position after the match
MatchAt(s, i, id) ==
    LET m == SkipSpaces(s, i)
        c == m + 1
        w == IF c <= Len(s) /\ s[c] = ":" THEN c + 1 ELSE c
        g == SkipSpaces(s, w)
        e == LineEnd(s, g)
    IN  IF AtLineStart(s, i) /\ m <= Len(s) /\ s[m] = Mention(id)
        THEN [ok |-> TRUE, group |-> SubSeq(s, g, e - 1), end |-> e]
        ELSE [ok |-> FALSE, group |-> <<>>, end |-> i]

\* extractMsgRE.ReplaceAllString(text, "$msg") from position i on
RECURSIVE ReplaceAllFrom(_, _, _)
ReplaceAllFrom(s, i, id) ==
    IF i > Len(s) THEN <<>>
    ELSE LET m == MatchAt(s, i, id)
         IN  IF m.ok
             THEN m.group \o ReplaceAllFrom(s, m.end, id)
             ELSE <<s[i]>> \o ReplaceAllFrom(s, i + 1, id)

ReplaceAllString(re, text) == ReplaceAllFrom(text, 1, re)

----------------------------------------------------------------------------
(* standupMsg, channelStandup, standups *)

NoStandupMsg == [ts |-> ZeroTime, text |-> <<>>]

\* make(channelStandup), make(standups)
EmptyMap == [k \in {} |-> NoStandupMsg]

\* m[k] = v on a Go map
MapPut(m, k, v) == [x \in (DOMAIN m) \cup {k} |-> IF x = k THEN v ELSE m[x]]

\* extractStandupMsg parses Slack messages starting with @bot-name
extractChannelStandupMsg(re, msg, clock) ==
    IF msg.type # "message" \/ msg.subtype # ""
    THEN [msg |-> NoStandupMsg, ok |-> FALSE]
    ELSE LET standupText == ReplaceAllString(re, msg.text)
             parsed == parseSlackTimeStamp(msg.timestamp, clock)
         IN  IF Len(standupText) = Len(msg.text)
             THEN [msg |-> NoStandupMsg, ok |-> FALSE]
             ELSE IF parsed.err
             THEN [msg |-> NoStandupMsg, ok |-> FALSE]
             ELSE [msg |-> [ts |-> parsed.t, text |-> standupText], ok |-> TRUE]

----------------------------------------------------------------------------
(* Sorting the keys of a channelStandup by timestamp, newer first *)

\* Less with the comparison turned around: older first
LessOlderFirst(cs, keys, i, j) == Before(cs[keys[i]].ts, cs[keys[j]].ts)

\* sortableChannelStandup.Less (positions count from 1 here)
Less(cs, keys, i, j) == After(cs[keys[i]].ts, cs[keys[j]].ts)

\* sortableChannelStandup.Swap
Swap(keys, i, j) == [keys EXCEPT ![i] = keys[j], ![j] = keys[i]]

\* sort.Sort on fewer than 7 elements is an insertion sort; its inner loop:
\* for j := i; j > a && data.Less(j, j-1); j-- { data.Swap(j, j-1) }
RECURSIVE insertionInner(_, _, _)
insertionInner(cs, keys, j) ==
    IF j > 1 /\ Less(cs, keys, j, j - 1)
    THEN insertionInner(cs, Swap(keys, j, j - 1), j - 1)
    ELSE keys

\* its outer loop: for i := a + 1; i < b; i++
RECURSIVE insertionSort(_, _, _)
insertionSort(cs, keys, i) ==
    IF i <= Len(keys)
    THEN insertionSort(cs, insertionInner(cs, keys, i), i + 1)
    ELSE keys

\* the orders in which "for k := range cs" may deliver the keys of a Go map
RangeOrders(cs) ==
    {o \in [1 .. Cardinality(DOMAIN cs) -> DOMAIN cs] :
        \A i, j \in 1 .. Cardinality(DOMAIN cs) : i # j => o[i] # o[j]}

\* getKeysByTimestamp returns the userIDs of the standup ordered by their
\* message timestamp (newer first); order is the map's iteration order
getKeysByTimestamp(cs, order) == insertionSort(cs, order, 2)

----------------------------------------------------------------------------
(* The Standup Store *)

\* removeOldMessages that also drops the entries stamped exactly at the bound
removeOldMessagesInclusive(st, channelID, clock) ==
    IF channelID \notin DOMAIN st
    THEN st
    ELSE LET oldestAllowed == AddDate(clock, -historyDaysLimit)
             kept == {u \in DOMAIN st[channelID] :
                         After(st[channelID][u].ts, oldestAllowed)}
         IN  [st EXCEPT ![channelID] = [u \in kept |-> st[channelID][u]]]

\* removeOldMessages that stops after the first entry it deletes
removeOldMessagesFirstOnly(st, channelID, clock) ==
    IF channelID \notin DOMAIN st
    THEN st
    ELSE LET oldestAllowed == AddDate(clock, -historyDaysLimit)
             old == {u \in DOMAIN st[channelID] :
                        Before(st[channelID][u].ts, oldestAllowed)}
             kept == IF old = {} THEN DOMAIN st[channelID]
                     ELSE DOMAIN st[channelID] \ {CHOOSE u \in old : TRUE}
         IN  [st EXCEPT ![channelID] = [u \in kept |-> st[channelID][u]]]

\* removeOldMessages with the comparison turned around: it drops the entries
\* newer than the bound
removeOldMessagesNewer(st, channelID, clock) ==
    IF channelID \notin DOMAIN st
    THEN st
    ELSE LET oldestAllowed == AddDate(clock, -historyDaysLimit)
             kept == {u \in DOMAIN st[channelID] :
                         ~After(st[channelID][u].ts, oldestAllowed)}
         IN  [st EXCEPT ![channelID] = [u \in kept |-> st[channelID][u]]]

\* removeOldMessages whose deletions are lost: the store is left as it was
removeOldMessagesOnCopy(st, channelID, clock) == st

\* removeOldMessages: the store after the call at instant clock
removeOldMessages(st, channelID, clock) ==
    IF channelID \notin DOMAIN st
    THEN st
    ELSE LET oldestAllowed == AddDate(clock, -historyDaysLimit)
             kept == {u \in DOMAIN st[channelID] :
                         ~Before(st[channelID][u].ts, oldestAllowed)}
         IN  [st EXCEPT ![channelID] = [u \in kept |-> st[channelID][u]]]

\* updateLastStandup that keeps the entry it finds unless the new one is newer
updateLastStandupIfNewer(st, channelID, userID, msg) ==
    LET st1 == IF channelID \notin DOMAIN st
               THEN MapPut(st, channelID, EmptyMap)
               ELSE st
    IN  IF userID \in DOMAIN st1[channelID] /\ ~After(msg.ts, st1[channelID][userID].ts)
        THEN st1
        ELSE [st1 EXCEPT ![channelID] = MapPut(st1[channelID], userID, msg)]

\* updateLastStandup: the store after the call
updateLastStandup(st, channelID, userID, msg) ==
    LET st1 == IF channelID \notin DOMAIN st
               THEN MapPut(st, channelID, EmptyMap)
               ELSE st
    IN  [st1 EXCEPT ![channelID] = MapPut(st1[channelID], userID, msg)]

\* updateLastStandup: the confirmation it sends
confirmationText(channelID, userID) ==
    [channel |-> channelID,
     text |-> [kind |-> "recorded", arg |-> <<userID>>, lines |-> <<>>]]

\* rtm.GetUserInfo(userID).Name as the backend knows it
UserInfoName(userID) == CASE userID = "U1" -> <<"a", "l">>
                          [] userID = "U2" -> <<"b">>
                          [] OTHER -> <<"x">>

\* getUserName: the display name, "id" + userID when the lookup failed
getUserName(userID, lookupFailed) ==
    IF userID \in lookupFailed THEN <<"i", "d", userID>> ELSE UserInfoName(userID)

\* one line of the digest: the user name with a zero-width character after
\* its first character when it is longer than 1, the text, the time shown
statusLine(cs, userID, lookupFailed) ==
    LET userName == getUserName(userID, lookupFailed)
    IN  [userName |-> IF Len(userName) > 1
                      THEN <<userName[1], "\\ufeff">> \o SubSeq(userName, 2, Len(userName))
                      ELSE userName,
         text |-> cs[userID].text,
         ts |-> cs[userID].ts]

\* prettyPrintChannelStandup: the header followed by one line per key
prettyPrintChannelStandup(cs, order, lookupFailed) ==
    LET keys == getKeysByTimestamp(cs, order)
    IN  [kind |-> "status", arg |-> <<>>,
         lines |-> [i \in 1 .. Len(keys) |-> statusLine(cs, keys[i], lookupFailed)]]

\* sendStatus without the test for an empty map
sendStatusNoEmptyCheck(st, channelID, name, order, lookupFailed) ==
    [channel |-> channelID,
     text |-> IF channelID \in DOMAIN st
              THEN prettyPrintChannelStandup(st[channelID], order, lookupFailed)
              ELSE [kind |-> "nostandup", arg |-> <<name>>, lines |-> <<>>]]

\* sendStatus: the message it sends
sendStatus(st, channelID, name, order, lookupFailed) ==
    [channel |-> channelID,
     text |-> IF channelID \in DOMAIN st /\ Cardinality(DOMAIN st[channelID]) > 0
              THEN prettyPrintChannelStandup(st[channelID], order, lookupFailed)
              ELSE [kind |-> "nostandup", arg |-> <<name>>, lines |-> <<>>]]

----------------------------------------------------------------------------
(* The environment: conversations, users, messages, events, the backend *)

C1 == <<"C", "1">>
G1 == <<"G", "1">>
D1 == <<"D", "1">>
X1 == <<"X", "1">>
NoChannel == <<>>

BotIDs == {"B1", "B2"}

BotNameOf(id) == IF id = "B1" THEN "arriba" ELSE "abajo"

\* the users that post in a conversation
Posters(c) == IF c = C1 THEN {"U1", "U2"} ELSE {"U1"}

\* raw timestamps: the start of day 0, and day 1 plus a few microseconds
TsPool == {<<0, 0>>} \cup {<<DaySeconds, f>> : f \in 0 .. MaxFrac}

NotAddressed == <<"a">>
Request == <<"<@B1>">>
UpdateA == <<"<@B1>", ":", " ", "a">>
UpdateB == <<"<@B1>", " ", "b">>
ToOtherBot == <<"<@B2>", " ", "a">>

Msg(c, u, text, ts) ==
    [type |-> "message", subtype |-> "", channel |-> c, user |-> u,
     text |-> text, timestamp |-> ts]

MessageEvent(m) == [kind |-> "message", msg |-> m]

\* status updates and status requests in the handled conversations
AddressedEvents ==
    {MessageEvent(Msg(c, u, t, ts)) :
        c \in {C1}, u \in Posters(C1), t \in {UpdateA, UpdateB}, ts \in TsPool}
    \cup {MessageEvent(Msg(c, u, t, ts)) :
        c \in {G1}, u \in Posters(G1), t \in {UpdateA}, ts \in TsPool}
    \cup {MessageEvent(Msg(c, "U1", Request, <<DaySeconds, 0>>)) : c \in {C1, G1}}

\* messages the extractor rejects
RejectedEvents ==
    {MessageEvent(Msg(C1, "U1", t, <<DaySeconds, 0>>)) : t \in {NotAddressed, ToOtherBot}}
    \cup {MessageEvent([Msg(C1, "U1", UpdateA, <<DaySeconds, 0>>)
                            EXCEPT !.subtype = "message_changed"]),
          MessageEvent([Msg(C1, "U1", UpdateA, <<DaySeconds, 0>>)
                            EXCEPT !.type = "hello"]),
          MessageEvent(Msg(C1, "U1", UpdateA, <<DaySeconds>>))}

\* messages in conversations of another class, or with no conversation
UnhandledEvents ==
    {MessageEvent(Msg(c, "U1", t, <<DaySeconds, 0>>)) :
        c \in {D1, X1, NoChannel}, t \in {UpdateA, Request}}

MessageEvents == AddressedEvents \cup RejectedEvents \cup UnhandledEvents

\* slack.ConnectedEvent: the bot's identity, the channels (with IsMember)
\* and the groups of the team; the events of identity B2 come from a team
\* in which the bot has joined nothing
ConnectedEvents ==
    {[kind |-> "connected", id |-> "B1", name |-> BotNameOf("B1"),
      channels |-> <<[id |-> C1, isMember |-> m]>>, groups |-> g] :
        m \in BOOLEAN, g \in {<<>>, <<[id |-> G1]>>}}
    \cup {[kind |-> "connected", id |-> "B2", name |-> BotNameOf("B2"),
           channels |-> <<[id |-> C1, isMember |-> FALSE]>>, groups |-> <<>>]}

NoEvent == [kind |-> "none"]

\* events of the types run has no case for, such as slack.HelloEvent
OtherEvents == {[kind |-> "hello"]}

\* the numeric value of a raw timestamp, as the backend orders them
TsLess(a, b) ==
    LET fa == IF Len(a) > 1 THEN a[2] ELSE 0
        fb == IF Len(b) > 1 THEN b[2] ELSE 0
    IN  a[1] < b[1] \/ (a[1] = b[1] /\ fa < fb)

\* what a conversation's history may hold
HistoryTexts(c) == IF c = C1 THEN {UpdateA, UpdateB, Request} ELSE {UpdateA}

HistoryMsgs(c) ==
    {Msg(c, u, t, ts) : u \in Posters(c), t \in HistoryTexts(c), ts \in TsPool}

\* the histories of a conversation: newest first, timestamps unique
Histories(c) ==
    UNION {{h \in [1 .. n -> HistoryMsgs(c)] :
               \A i \in 1 .. n - 1 : TsLess(h[i + 1].timestamp, h[i].timestamp)} :
           n \in 0 .. MaxHistory}

\* the messages of h inside the bounds of p, newest first
RECURSIVE InBounds(_, _)
InBounds(h, p) ==
    IF h = <<>> THEN <<>>
    ELSE LET ts == Head(h).timestamp
             in == /\ \/ TsLess(p.oldest, ts)
                      \/ (p.inclusive /\ ~TsLess(ts, p.oldest))
                   /\ \/ TsLess(ts, p.latest)
                      \/ (p.inclusive /\ ~TsLess(p.latest, ts))
         IN  (IF in THEN <<Head(h)>> ELSE <<>>) \o InBounds(Tail(h), p)

Min(a, b) == IF a < b THEN a ELSE b

\* conversation.getHistory: the pages the backend may answer with, each up
\* to p.count of the newest messages in bounds, or an error
getHistory(h, p) ==
    LET inb == InBounds(h, p)
    IN  {[err |-> TRUE, messages |-> <<>>, hasMore |-> FALSE]}
        \cup {[err |-> FALSE, messages |-> SubSeq(inb, 1, n),
               hasMore |-> n < Len(inb)] :
                 n \in (IF inb = <<>> THEN {0} ELSE 1 .. Min(p.count, Len(inb)))}

----------------------------------------------------------------------------
(* The backfill: retrieveStandups and retrieveChannelStandup *)

\* the loop of lines 152-162 without the test for an empty text
RECURSIVE scanPageStoresRequests(_, _, _, _, _)
scanPageStoresRequests(re, messages, i, cs, clock) ==
    IF i >= Len(messages) THEN cs
    ELSE LET msg == messages[Len(messages) - i]
             ex == extractChannelStandupMsg(re, msg, clock)
         IN  scanPageStoresRequests(re, messages, i + 1,
                      IF msg.user \in DOMAIN cs THEN cs
                      ELSE IF ex.ok
                      THEN MapPut(cs, msg.user, ex.msg)
                      ELSE cs,
                      clock)

\* lines 152-162: the page is traversed from its last message to its first;
\* i counts the iterations as the loop does
RECURSIVE scanPage(_, _, _, _, _)
scanPage(re, messages, i, cs, clock) ==
    IF i >= Len(messages) THEN cs
    ELSE LET msg == messages[Len(messages) - i]
             ex == extractChannelStandupMsg(re, msg, clock)
         IN  scanPage(re, messages, i + 1,
                      IF msg.user \in DOMAIN cs THEN cs
                      ELSE IF ex.ok /\ ex.msg.text # <<>>
                      THEN MapPut(cs, msg.user, ex.msg)
                      ELSE cs,
                      clock)

\* lines 131-135: the parameters of the first fetch
firstParams(clock) ==
    [count |-> HistoryCount,
     latest |-> <<UnixSeconds(clock)>>,
     oldest |-> <<UnixSeconds(AddDate(clock, -historyDaysLimit))>>,
     inclusive |-> FALSE]

\* the next fetch with the boundary message included again
nextParamsInclusive(p, messages) ==
    [p EXCEPT !.latest = messages[Len(messages)].timestamp, !.inclusive = TRUE]

\* the next fetch bounded by the first message of the page, its newest
nextParamsNewest(p, messages) ==
    [p EXCEPT !.latest = messages[1].timestamp, !.inclusive = FALSE]

\* the next fetch with params.Latest left as it was
nextParamsSameLatest(p, messages) ==
    [p EXCEPT !.inclusive = FALSE]

\* lines 167-169: the parameters of the next fetch
nextParams(p, messages) ==
    [p EXCEPT !.latest = messages[Len(messages)].timestamp, !.inclusive = FALSE]

\* lines 262-270: the channels the bot is a member of, then the groups
RECURSIVE joinedChannels(_)
joinedChannels(channels) ==
    IF channels = <<>> THEN <<>>
    ELSE (IF Head(channels).isMember THEN <<Head(channels).id>> ELSE <<>>)
         \o joinedChannels(Tail(channels))

joinedConversations(ev) ==
    joinedChannels(ev.channels) \o [i \in 1 .. Len(ev.groups) |-> ev.groups[i].id]

NoParams == [count |-> 0, latest |-> <<0>>, oldest |-> <<0>>, inclusive |-> FALSE]

\* retrieveStandups, line 175: the loop ends, or retrieveChannelStandup is
\* entered for the next conversation (lines 131-139), whose history the
\* backend holds
RetrieveStandupsLoop ==
    /\ pc = "loop"
    /\ IF conversations = <<>>
       THEN /\ pc' = "idle"
            /\ UNCHANGED <<history, params, cstandup, fetchErr>>
       ELSE /\ pc' = "fetch"
            /\ history' \in Histories(Head(conversations))
            /\ params' = firstParams(now)
            /\ cstandup' = EmptyMap
            /\ fetchErr' = FALSE
    /\ UNCHANGED <<now, botID, botName, extractMsgRE, standups, conversations,
                   lastEv, sent, script>>

\* retrieveChannelStandup that returns an empty map when a fetch fails
FetchPageDiscardOnError ==
    /\ pc = "fetch"
    /\ \E page \in getHistory(history, params) :
          IF page.err
          THEN /\ pc' = "ret"
               /\ fetchErr' = TRUE
               /\ cstandup' = EmptyMap
               /\ UNCHANGED params
          ELSE IF Len(page.messages) = 0
          THEN /\ pc' = "ret"
               /\ fetchErr' = FALSE
               /\ UNCHANGED <<cstandup, params>>
          ELSE /\ cstandup' = scanPage(extractMsgRE, page.messages, 0, cstandup, now)
               /\ fetchErr' = FALSE
               /\ IF ~page.hasMore
                  THEN pc' = "ret" /\ UNCHANGED params
                  ELSE pc' = "fetch" /\ params' = nextParams(params, page.messages)
    /\ UNCHANGED <<now, botID, botName, extractMsgRE, standups, conversations,
                   history, lastEv, sent, script>>

\* retrieveChannelStandup, lines 141-170: one round of the loop
FetchPage ==
    /\ pc = "fetch"
    /\ \E page \in getHistory(history, params) :
          IF page.err \/ Len(page.messages) = 0
          THEN /\ pc' = "ret"
               /\ fetchErr' = page.err
               /\ UNCHANGED <<cstandup, params>>
          ELSE /\ cstandup' = scanPage(extractMsgRE, page.messages, 0, cstandup, now)
               /\ fetchErr' = FALSE
               /\ IF ~page.hasMore
                  THEN pc' = "ret" /\ UNCHANGED params
                  ELSE pc' = "fetch" /\ params' = nextParams(params, page.messages)
    /\ UNCHANGED <<now, botID, botName, extractMsgRE, standups, conversations,
                   history, lastEv, sent, script>>

\* retrieveStandups that installs the result only when there was no error
InstallStandupUnlessError ==
    /\ pc = "ret"
    /\ standups' = IF fetchErr THEN standups
                   ELSE MapPut(standups, Head(conversations), cstandup)
    /\ conversations' = Tail(conversations)
    /\ pc' = "loop"
    /\ history' = <<>>
    /\ params' = NoParams
    /\ cstandup' = EmptyMap
    /\ fetchErr' = FALSE
    /\ UNCHANGED <<now, botID, botName, extractMsgRE, lastEv, sent, script>>

\* retrieveStandups, lines 178-182: the result is installed, error or not
InstallStandup ==
    /\ pc = "ret"
    /\ standups' = MapPut(standups, Head(conversations), cstandup)
    /\ conversations' = Tail(conversations)
    /\ pc' = "loop"
    /\ history' = <<>>
    /\ params' = NoParams
    /\ cstandup' = EmptyMap
    /\ fetchErr' = FALSE
    /\ UNCHANGED <<now, botID, botName, extractMsgRE, lastEv, sent, script>>

----------------------------------------------------------------------------
(* The event loop *)

\* the event loop with retrieveStandups running beside it: events are
\* received while the backfill is under way
eventLoopWaitingConcurrent == pc \in {"idle", "loop", "fetch", "ret"}

\* run, lines 308-310: the single thread is at the receive on
\* rtm.IncomingEvents, every handler it called has returned
eventLoopWaiting == pc = "idle"

\* handleConnectedEvent, lines 246-271; unexpected is the test of line 246
connectedEvent(ev, unexpected) ==
    /\ eventLoopWaiting
    /\ lastEv' = ev
    /\ sent' = <<>>
    /\ IF unexpected
       THEN UNCHANGED <<botID, botName, extractMsgRE, conversations, pc>>
       ELSE /\ botID' = ev.id
            /\ botName' = ev.name
            /\ extractMsgRE' = ev.id
            /\ conversations' = joinedConversations(ev)
            /\ pc' = "loop"
    /\ UNCHANGED <<now, standups, history, params, cstandup, fetchErr>>

\* handleConnectedEvent without the test of line 246
handleConnectedEventUnguarded(ev) == connectedEvent(ev, FALSE)

\* handleConnectedEvent
handleConnectedEvent(ev) == connectedEvent(ev, botID # "")

\* the keys sendStatus ranges over: those of the conversation's standup
statusKeys(st, channelID) ==
    IF channelID \in DOMAIN st THEN st[channelID] ELSE EmptyMap

\* handleMessageEvent, lines 275-302; dropped is the outcome of the tests of
\* lines 276 and 280, handled that of the switch of line 284
messageEvent(ev, dropped, handled) ==
    /\ eventLoopWaiting
    /\ lastEv' = ev
    /\ IF dropped
       THEN UNCHANGED standups /\ sent' = <<>>
       ELSE IF handled
       THEN LET smsg == extractChannelStandupMsg(extractMsgRE, ev.msg, now)
                pruned == removeOldMessages(standups, ev.msg.channel, now)
            IN  IF ~smsg.ok
                THEN UNCHANGED standups /\ sent' = <<>>
                ELSE IF smsg.msg.text = <<>>
                THEN /\ standups' = pruned
                     /\ \E order \in RangeOrders(statusKeys(pruned, ev.msg.channel)) :
                        \E lookupFailed \in SUBSET DOMAIN statusKeys(pruned, ev.msg.channel) :
                           sent' = <<sendStatus(pruned, ev.msg.channel, botName,
                                                order, lookupFailed)>>
                ELSE /\ standups' = updateLastStandup(pruned, ev.msg.channel,
                                                      ev.msg.user, smsg.msg)
                     /\ sent' = <<confirmationText(ev.msg.channel, ev.msg.user)>>
       ELSE UNCHANGED standups /\ sent' = <<>>
    /\ UNCHANGED <<now, botID, botName, extractMsgRE, pc, conversations,
                   history, params, cstandup, fetchErr>>

\* handleMessageEvent that takes a message without a conversation identifier
\* for a channel message
handleMessageEventNoChannelTest(ev) ==
    messageEvent(ev, botID = "",
                 ev.msg.channel = <<>> \/ Head(ev.msg.channel) \in {"C", "G"})

\* handleMessageEvent with direct messages handled as channel messages are
handleMessageEventDirect(ev) ==
    messageEvent(ev, botID = "" \/ ev.msg.channel = <<>>,
                 Head(ev.msg.channel) \in {"C", "G", "D"})

\* handleMessageEvent
handleMessageEvent(ev) ==
    messageEvent(ev, botID = "" \/ ev.msg.channel = <<>>,
                 Head(ev.msg.channel) \in {"C", "G"})

\* run: a slack.RTMError is logged
handleRTMError ==
    /\ eventLoopWaiting
    /\ lastEv' = [kind |-> "rtm_error"]
    /\ sent' = <<>>
    /\ UNCHANGED <<now, botID, botName, extractMsgRE, standups, pc, conversations,
                   history, params, cstandup, fetchErr>>

\* run: an event of a type the switch of line 311 has no case for is
\* received and nothing is done
ignoreEvent(ev) ==
    /\ eventLoopWaiting
    /\ lastEv' = ev
    /\ sent' = <<>>
    /\ UNCHANGED <<now, botID, botName, extractMsgRE, standups, pc, conversations,
                   history, params, cstandup, fetchErr>>

\* run: a slack.InvalidAuthEvent ends the process
handleInvalidAuth ==
    /\ eventLoopWaiting
    /\ lastEv' = [kind |-> "invalid_auth"]
    /\ sent' = <<>>
    /\ pc' = "exit"
    /\ UNCHANGED <<now, botID, botName, extractMsgRE, standups, conversations,
                   history, params, cstandup, fetchErr>>

\* a day passes
Tick ==
    /\ pc # "exit"
    /\ now.day < MaxDay
    /\ now' = AddDate(now, 1)
    /\ UNCHANGED <<botID, botName, extractMsgRE, standups, pc, conversations,
                   history, params, cstandup, fetchErr, lastEv, sent, script>>

\* newArriba, and the clock at the start of day 0
Init ==
    /\ now = Unix(0, 0)
    /\ botID = ""
    /\ botName = ""
    /\ extractMsgRE = ""
    /\ standups = EmptyMap
    /\ pc = "idle"
    /\ conversations = <<>>
    /\ history = <<>>
    /\ params = NoParams
    /\ cstandup = EmptyMap
    /\ fetchErr = FALSE
    /\ lastEv = NoEvent
    /\ sent = <<>>
    /\ script = <<>>

\* the events come from the environment one at a time; script is not used
Next ==
    \/ \E ev \in ConnectedEvents : handleConnectedEvent(ev) /\ UNCHANGED script
    \/ \E ev \in MessageEvents : handleMessageEvent(ev) /\ UNCHANGED script
    \/ handleRTMError /\ UNCHANGED script
    \/ handleInvalidAuth /\ UNCHANGED script
    \/ \E ev \in OtherEvents : ignoreEvent(ev) /\ UNCHANGED script
    \/ RetrieveStandupsLoop
    \/ FetchPage
    \/ InstallStandup
    \/ Tick

Spec == Init /\ [][Next]_vars

----------------------------------------------------------------------------
(* The round trip: status updates applied live, in chronological order, to *)
(* an empty conversation, then handed to retrieveChannelStandup as the     *)
(* history of that conversation                                            *)

\* status updates of conversation C1 inside the retention window
ScriptMsgs ==
    {Msg(C1, u, t, <<DaySeconds, f>>) :
        u \in Posters(C1), t \in {UpdateA, UpdateB}, f \in 1 .. MaxScript}

\* the scripts: oldest first, timestamps unique
Scripts ==
    UNION {{h \in [1 .. n -> ScriptMsgs] :
               \A i \in 1 .. n - 1 : TsLess(h[i].timestamp, h[i + 1].timestamp)} :
           n \in 0 .. MaxScript}

InitRoundTrip ==
    /\ now = AddDate(Unix(DaySeconds, 0), historyDaysLimit)
    /\ botID = "B1"
    /\ botName = BotNameOf("B1")
    /\ extractMsgRE = "B1"
    /\ standups = EmptyMap
    /\ pc = "script"
    /\ conversations = <<C1>>
    /\ history = <<>>
    /\ params = NoParams
    /\ cstandup = EmptyMap
    /\ fetchErr = FALSE
    /\ lastEv = NoEvent
    /\ sent = <<>>
    /\ script \in Scripts

\* the next status update of the script goes through updateLastStandup and
\* becomes the newest message of the conversation's history
ScriptUpsert ==
    /\ pc = "script"
    /\ script # <<>>
    /\ LET m == Head(script)
           smsg == extractChannelStandupMsg(extractMsgRE, m, now)
       IN  /\ standups' = updateLastStandup(standups, m.channel, m.user, smsg.msg)
           /\ sent' = <<confirmationText(m.channel, m.user)>>
           /\ history' = <<m>> \o history
    /\ script' = Tail(script)
    /\ UNCHANGED <<now, botID, botName, extractMsgRE, pc, conversations,
                   params, cstandup, fetchErr, lastEv>>

\* the script is over: retrieveChannelStandup is entered for the conversation
ScriptRetrieve ==
    /\ pc = "script"
    /\ script = <<>>
    /\ pc' = "fetch"
    /\ params' = firstParams(now)
    /\ cstandup' = EmptyMap
    /\ fetchErr' = FALSE
    /\ UNCHANGED <<now, botID, botName, extractMsgRE, standups, conversations,
                   history, lastEv, sent, script>>

NextRoundTrip == ScriptUpsert \/ ScriptRetrieve \/ FetchPage

SpecRoundTrip == InitRoundTrip /\ [][NextRoundTrip]_vars

----------------------------------------------------------------------------
(* The extractor on arbitrary messages: one message of U1 in C1, handled   *)
(* live, or found by the backfill in the history of C1 above a status      *)
(* update of U2                                                            *)

TextTokens == {"<@B1>", "<@B2>", ":", " ", "\n", "a"}

ExtractTexts == UNION {[1 .. n -> TextTokens] : n \in 0 .. MaxText}

\* every text, with a raw timestamp "sec.frac" or one without a fraction,
\* as a plain message, an edited one, or an event of another type
ExtractMsgs ==
    {[Msg(C1, "U1", t, ts) EXCEPT !.type = k[1], !.subtype = k[2]] :
        t \in ExtractTexts,
        ts \in {<<DaySeconds, 2>>, <<DaySeconds + 1>>},
        k \in {<<"message", "">>, <<"message", "message_changed">>, <<"hello", "">>}}

KnownMsg == Msg(C1, "U2", UpdateA, <<DaySeconds, 1>>)

\* the bot is connected as B1; C1 holds an entry of U1 older than the
\* retention bound and a fresh one of U2
InitExtract ==
    /\ now = AddDate(Unix(DaySeconds, 0), historyDaysLimit)
    /\ botID = "B1"
    /\ botName = BotNameOf("B1")
    /\ extractMsgRE = "B1"
    /\ standups = MapPut(EmptyMap, C1,
                         MapPut(MapPut(EmptyMap, "U1", [ts |-> Unix(0, 0), text |-> <<"b">>]),
                                "U2", [ts |-> Unix(DaySeconds, 1000), text |-> <<"a">>]))
    /\ pc = "idle"
    /\ conversations = <<>>
    /\ history = <<>>
    /\ params = NoParams
    /\ cstandup = EmptyMap
    /\ fetchErr = FALSE
    /\ lastEv = NoEvent
    /\ sent = <<>>
    /\ script \in {<<m>> : m \in ExtractMsgs}

\* the message arrives as a live event
ExtractLive ==
    /\ script # <<>>
    /\ handleMessageEvent(MessageEvent(Head(script)))
    /\ script' = Tail(script)

\* the message is the newest of the history of C1, and
\* retrieveChannelStandup is entered for C1
ExtractBackfill ==
    /\ eventLoopWaiting
    /\ script # <<>>
    /\ pc' = "fetch"
    /\ conversations' = <<C1>>
    /\ history' = <<Head(script), KnownMsg>>
    /\ params' = firstParams(now)
    /\ cstandup' = EmptyMap
    /\ fetchErr' = FALSE
    /\ script' = Tail(script)
    /\ UNCHANGED <<now, botID, botName, extractMsgRE, standups, lastEv, sent>>

NextExtract == ExtractLive \/ ExtractBackfill \/ FetchPage \/ InstallStandup

SpecExtract == InitExtract /\ [][NextExtract]_vars

----------------------------------------------------------------------------
(* The event loop fed from a queue: the events ManageConnection has put on *)
(* rtm.IncomingEvents, in arrival order, with the bot in two groups        *)

G2 == <<"G", "2">>

QueueEvents ==
    {[kind |-> "connected", id |-> "B1", name |-> BotNameOf("B1"),
      channels |-> <<[id |-> C1, isMember |-> FALSE]>>,
      groups |-> <<[id |-> G1], [id |-> G2]>>],
     [kind |-> "connected", id |-> "B2", name |-> BotNameOf("B2"),
      channels |-> <<[id |-> C1, isMember |-> FALSE]>>, groups |-> <<>>],
     MessageEvent(Msg(G1, "U1", UpdateA, <<DaySeconds, 2>>)),
     MessageEvent(Msg(G1, "U1", Request, <<DaySeconds, 0>>)),
     MessageEvent(Msg(G2, "U1", UpdateA, <<DaySeconds, 1>>)),
     [kind |-> "rtm_error"],
     [kind |-> "invalid_auth"]}
    \cup OtherEvents

Queues == UNION {[1 .. n -> QueueEvents] : n \in 0 .. MaxQueue}

InitQueue ==
    /\ now = AddDate(Unix(DaySeconds, 0), historyDaysLimit)
    /\ botID = ""
    /\ botName = ""
    /\ extractMsgRE = ""
    /\ standups = EmptyMap
    /\ pc = "idle"
    /\ conversations = <<>>
    /\ history = <<>>
    /\ params = NoParams
    /\ cstandup = EmptyMap
    /\ fetchErr = FALSE
    /\ lastEv = NoEvent
    /\ sent = <<>>
    /\ script \in Queues

\* run, lines 311-321: the type switch
dispatch(ev) ==
    \/ ev.kind = "connected" /\ handleConnectedEvent(ev)
    \/ ev.kind = "message" /\ handleMessageEvent(ev)
    \/ ev.kind = "rtm_error" /\ handleRTMError
    \/ ev.kind = "invalid_auth" /\ handleInvalidAuth
    \/ /\ ev.kind \notin {"connected", "message", "rtm_error", "invalid_auth"}
       /\ ignoreEvent(ev)

\* run, line 310: the next event is taken from the channel and handled
QueueReceive ==
    /\ script # <<>>
    /\ dispatch(Head(script))
    /\ script' = Tail(script)

NextQueue == QueueReceive \/ RetrieveStandupsLoop \/ FetchPage \/ InstallStandup

SpecQueue == InitQueue /\ [][NextQueue]_vars

----------------------------------------------------------------------------
(* The backfill alone: retrieveStandups called by handleConnectedEvent for *)
(* the channel C1 and the group G1                                         *)

BackfillEvent ==
    [kind |-> "connected", id |-> "B1", name |-> BotNameOf("B1"),
     channels |-> <<[id |-> C1, isMember |-> TRUE]>>, groups |-> <<[id |-> G1]>>]

\* the state handleConnectedEvent leaves at line 271, the window being
\* the one that ends with the last day of the timestamp pool
InitBackfill ==
    /\ now = AddDate(Unix(DaySeconds, 0), historyDaysLimit)
    /\ botID = BackfillEvent.id
    /\ botName = BackfillEvent.name
    /\ extractMsgRE = BackfillEvent.id
    /\ standups = EmptyMap
    /\ pc = "loop"
    /\ conversations = joinedConversations(BackfillEvent)
    /\ history = <<>>
    /\ params = NoParams
    /\ cstandup = EmptyMap
    /\ fetchErr = FALSE
    /\ lastEv = BackfillEvent
    /\ sent = <<>>
    /\ script = <<>>

NextBackfill == RetrieveStandupsLoop \/ FetchPage \/ InstallStandup

\* retrieveChannelStandup runs on: once called, getHistory answers and the
\* loop of line 140 takes its next round
SpecBackfill == InitBackfill /\ [][NextBackfill]_vars /\ WF_vars(FetchPage)

----------------------------------------------------------------------------
(* The pagination alone: retrieveChannelStandup called for C1, whose       *)
(* history holds up to MaxWindow messages inside the window, so that pages *)
(* of several messages are followed by further pages, and messages older   *)
(* than the window                                                         *)

PaginateTs ==
    {<<0, 0>>, <<DaySeconds, 0>>} \cup {<<DaySeconds, f>> : f \in 1 .. MaxWindow}

PaginateMsgs ==
    {Msg(C1, u, UpdateA, ts) : u \in Posters(C1), ts \in PaginateTs}
    \cup {Msg(C1, "U1", Request, ts) : ts \in PaginateTs}

\* newest first, timestamps unique
PaginateHistories ==
    UNION {{h \in [1 .. n -> PaginateMsgs] :
               \A i \in 1 .. n - 1 : TsLess(h[i + 1].timestamp, h[i].timestamp)} :
           n \in 0 .. MaxWindow + 1}

\* the state at line 139, before the first fetch
InitPaginate ==
    /\ now = AddDate(Unix(DaySeconds, 0), historyDaysLimit)
    /\ botID = "B1"
    /\ botName = BotNameOf("B1")
    /\ extractMsgRE = "B1"
    /\ standups = EmptyMap
    /\ pc = "fetch"
    /\ conversations = <<C1>>
    /\ history \in PaginateHistories
    /\ params = firstParams(now)
    /\ cstandup = EmptyMap
    /\ fetchErr = FALSE
    /\ lastEv = NoEvent
    /\ sent = <<>>
    /\ script = <<>>

NextPaginate == FetchPage \/ InstallStandup

SpecPaginate == InitPaginate /\ [][NextPaginate]_vars

----------------------------------------------------------------------------
(* Claims *)

\* the status updates (extracted ok, text not empty) of user u among the
\* messages of history h that lie inside the bounds of the first fetch
QualifyingMsgs(h, u, re, p) ==
    LET inb == InBounds(h, p)
    IN  {extractChannelStandupMsg(re, inb[i], Unix(0, 0)).msg :
            i \in {j \in 1 .. Len(inb) :
                     /\ inb[j].user = u
                     /\ extractChannelStandupMsg(re, inb[j], Unix(0, 0)).ok
                     /\ extractChannelStandupMsg(re, inb[j], Unix(0, 0)).msg.text # <<>>}}

\* the bounds retrieveChannelStandup started from, recovered from params.oldest
WindowParams == [params EXCEPT !.latest = <<params.oldest[1] + historyDaysLimit * DaySeconds>>]

\* C1: when retrieveChannelStandup returns without error, every author key of
\* its result maps to the newest of that author's status updates inside the
\* retention window
C1_BackfillPicksNewest ==
    (pc = "ret" /\ ~fetchErr) =>
        \A u \in DOMAIN cstandup :
            /\ cstandup[u] \in QualifyingMsgs(history, u, extractMsgRE, WindowParams)
            /\ \A q \in QualifyingMsgs(history, u, extractMsgRE, WindowParams) :
                  ~After(q.ts, cstandup[u].ts)

\* C2: the reconciler, fed the messages of a live upsert sequence, returns
\* the per-author map the upserts built
C2_RoundTrip ==
    (pc = "ret" /\ ~fetchErr) => cstandup = statusKeys(standups, C1)

\* the dispatcher is past Uninitialized
Ready == botID # ""

\* the conversation classes handleMessageEvent proceeds with
HandledChannel(c) == c # <<>> /\ Head(c) \in {"C", "G"}

\* the last event was a message of a handled conversation, received in
\* state Ready, that the extractor accepted
LastAccepted ==
    /\ lastEv.kind = "message"
    /\ Ready
    /\ HandledChannel(lastEv.msg.channel)
    /\ extractChannelStandupMsg(extractMsgRE, lastEv.msg, now).ok

LastStandupMsg == extractChannelStandupMsg(extractMsgRE, lastEv.msg, now).msg

LastIsUpdate == LastAccepted /\ LastStandupMsg.text # <<>>

LastIsRequest == LastAccepted /\ LastStandupMsg.text = <<>>

\* this step handles the message event lastEv'
MessageStep == pc = "idle" /\ lastEv'.kind = "message" /\ now' = now

\* this step handles the connection-established event lastEv'
ConnectedStep == pc = "idle" /\ lastEv'.kind = "connected" /\ now' = now

\* the retention bound at instant clock
OldestAllowed(clock) == Unix(UnixSeconds(clock) - historyDaysLimit * DaySeconds, clock.nsec)

\* instant t lies strictly before the bound
StrictlyOlder(t, bound) ==
    IF UnixSeconds(t) = UnixSeconds(bound)
    THEN t.nsec < bound.nsec
    ELSE UnixSeconds(t) < UnixSeconds(bound)

\* the instants a pruning pass may run at
Clocks == {Unix(d * DaySeconds, 0) : d \in 0 .. MaxDay + 1}

AllChannels == {C1, G1, D1, X1, NoChannel}

\* C3: after a status update by u in a handled conversation c has been
\* processed, standups[c][u] is exactly that message
C3_LiveUpsertLastWriteWins ==
    LastIsUpdate =>
        /\ lastEv.msg.channel \in DOMAIN standups
        /\ lastEv.msg.user \in DOMAIN standups[lastEv.msg.channel]
        /\ standups[lastEv.msg.channel][lastEv.msg.user] = LastStandupMsg

\* a status update stamped day 0 was stored on day 2, when it is already
\* older than the retention bound, next to a newer entry of the other user
C3_Witness ==
    /\ LastIsUpdate
    /\ lastEv.msg.channel = C1
    /\ lastEv.msg.user = "U1"
    /\ lastEv.msg.timestamp = <<0, 0>>
    /\ now = Unix(2 * DaySeconds, 0)
    /\ standups[C1]["U1"] = [ts |-> Unix(0, 0), text |-> <<"b">>]
    /\ "U2" \in DOMAIN standups[C1]

\* C4: removeOldMessages(c) at instant clock removes from conversation c
\* exactly the entries strictly older than clock - retentionWindow, keeps the
\* others unchanged, leaves every other conversation unchanged and does
\* nothing when c is absent
C4_PrunePostcondition ==
    \A c \in AllChannels : \A clock \in Clocks :
        LET after == removeOldMessages(standups, c, clock)
        IN  /\ DOMAIN after = DOMAIN standups
            /\ \A d \in DOMAIN standups : d # c => after[d] = standups[d]
            /\ c \in DOMAIN standups =>
                  /\ DOMAIN after[c] =
                        {u \in DOMAIN standups[c] :
                            ~StrictlyOlder(standups[c][u].ts, OldestAllowed(clock))}
                  /\ \A u \in DOMAIN after[c] : after[c][u] = standups[c][u]

\* a status request in C1 was handled on day 2: the entry of C1 stamped
\* exactly at the retention bound is still there, and so is the older entry
\* of G1, which the pass did not look at
C4_Witness ==
    /\ LastIsRequest
    /\ lastEv.msg.channel = C1
    /\ now = Unix(2 * DaySeconds, 0)
    /\ C1 \in DOMAIN standups
    /\ \E u \in DOMAIN standups[C1] : standups[C1][u].ts = Unix(DaySeconds, 0)
    /\ G1 \in DOMAIN standups
    /\ \E u \in DOMAIN standups[G1] : standups[G1][u].ts = Unix(0, 0)

\* C5: pruning twice in a row, at the same instant, leaves the store as
\* pruning once does
C5_PruneIdempotent ==
    \A c \in AllChannels : \A clock \in Clocks :
        removeOldMessages(removeOldMessages(standups, c, clock), c, clock)
            = removeOldMessages(standups, c, clock)

\* a store in which a pruning pass has two entries of one conversation to remove
C5_Witness ==
    /\ C1 \in DOMAIN standups
    /\ DOMAIN standups[C1] = {"U1", "U2"}
    /\ DOMAIN removeOldMessages(standups, C1, now)[C1] = {}

\* the entries of conversation c that are older than the retention bound
StaleIn(st, c, clock) ==
    IF c \in DOMAIN st
    THEN {u \in DOMAIN st[c] : StrictlyOlder(st[c][u].ts, OldestAllowed(clock))}
    ELSE {}

\* C6 as claimed: in state Ready, an entry of conversation c older than the
\* retention bound is gone once any message event in c has been handled
C6_AnyEventExpires ==
    [][(MessageStep /\ Ready) =>
          \A u \in StaleIn(standups, lastEv'.msg.channel, now) :
             ~(/\ u \in DOMAIN standups'[lastEv'.msg.channel]
               /\ standups'[lastEv'.msg.channel][u] = standups[lastEv'.msg.channel][u])]_vars

\* C6 as amended: in state Ready, once a message event of c that the
\* extractor accepts has been handled, every entry of c that was older than
\* the retention bound has been removed; only a status update by the same
\* author puts an entry back under that key, the one it carries
C6_AcceptedEventExpires ==
    [][(/\ MessageStep
        /\ Ready
        /\ HandledChannel(lastEv'.msg.channel)
        /\ extractChannelStandupMsg(extractMsgRE, lastEv'.msg, now).ok) =>
          \A u \in StaleIn(standups, lastEv'.msg.channel, now) :
             \/ u \notin DOMAIN standups'[lastEv'.msg.channel]
             \/ /\ u = lastEv'.msg.user
                /\ extractChannelStandupMsg(extractMsgRE, lastEv'.msg, now).msg.text # <<>>
                /\ standups'[lastEv'.msg.channel][u]
                      = extractChannelStandupMsg(extractMsgRE, lastEv'.msg, now).msg]_vars

\* with a window of 1 day, on day 2, a status update by U2 in C1 has been
\* handled: no entry stamped day 0 is left in C1 while G1 still holds one
C6_Witness ==
    /\ LastIsUpdate
    /\ lastEv.msg.channel = C1
    /\ lastEv.msg.user = "U2"
    /\ lastEv.msg.timestamp = <<DaySeconds, 1>>
    /\ now = Unix((historyDaysLimit + 1) * DaySeconds, 0)
    /\ StaleIn(standups, C1, now) = {}
    /\ StaleIn(standups, G1, now) # {}

\* seq is a permutation of the set S
IsPermutation(seq, S) ==
    /\ Len(seq) = Cardinality(S)
    /\ {seq[i] : i \in 1 .. Len(seq)} = S

\* the display names getUserName may resolve a user to
NamesOf(u) == {getUserName(u, {}), getUserName(u, {u})}

\* the user name as a digest line shows it
Shown(name) ==
    IF Len(name) > 1 THEN <<name[1], "\\ufeff">> \o SubSeq(name, 2, Len(name)) ELSE name

\* C7: the digest holds exactly one line per author entry, the timestamps of
\* consecutive lines never increase, and getKeysByTimestamp returns a
\* permutation of the keys in that order
C7_DigestOrdering ==
    /\ \A c \in DOMAIN standups : \A order \in RangeOrders(standups[c]) :
          LET keys == getKeysByTimestamp(standups[c], order)
          IN  /\ IsPermutation(keys, DOMAIN standups[c])
              /\ \A i \in 1 .. Len(keys) - 1 :
                    ~StrictlyOlder(standups[c][keys[i]].ts, standups[c][keys[i + 1]].ts)
    /\ (LastIsRequest /\ sent[1].text.kind = "status") =>
          LET cs == standups[lastEv.msg.channel]
              lines == sent[1].text.lines
          IN  /\ Len(lines) = Cardinality(DOMAIN cs)
              /\ \E keys \in RangeOrders(cs) :
                    \A i \in 1 .. Len(keys) :
                       /\ lines[i].userName \in {Shown(n) : n \in NamesOf(keys[i])}
                       /\ lines[i].text = cs[keys[i]].text
                       /\ lines[i].ts = cs[keys[i]].ts
              /\ \A i \in 1 .. Len(lines) - 1 :
                    ~StrictlyOlder(lines[i].ts, lines[i + 1].ts)

\* a digest of two lines with different timestamps was sent
C7_Witness ==
    /\ LastIsRequest
    /\ Len(sent) = 1
    /\ sent[1].text.kind = "status"
    /\ Len(sent[1].text.lines) = 2
    /\ StrictlyOlder(sent[1].text.lines[2].ts, sent[1].text.lines[1].ts)

\* C8: the reply to a status request in conversation c is the "No standup
\* messages found" prompt, with the bot name, exactly when c is absent from
\* the store or its map is empty after the pruning; otherwise it is the digest
\* with one line per stored author
C8_StatusReply ==
    LastIsRequest =>
        LET c == lastEv.msg.channel
            empty == c \notin DOMAIN standups \/ DOMAIN standups[c] = {}
        IN  /\ Len(sent) = 1
            /\ sent[1].channel = c
            /\ sent[1].text.kind \in {"nostandup", "status"}
            /\ sent[1].text.kind = "nostandup" <=> empty
            /\ sent[1].text.kind = "nostandup" =>
                  sent[1].text.arg = <<botName>> /\ sent[1].text.lines = <<>>
            /\ sent[1].text.kind = "status" =>
                  Len(sent[1].text.lines) = Cardinality(DOMAIN standups[c])

\* on day 2 a status request found the map of C1 present and empty and got
\* the prompt
C8_Witness ==
    /\ LastIsRequest
    /\ lastEv.msg.channel = C1
    /\ now = Unix(2 * DaySeconds, 0)
    /\ C1 \in DOMAIN standups
    /\ DOMAIN standups[C1] = {}
    /\ sent = <<[channel |-> C1,
                 text |-> [kind |-> "nostandup", arg |-> <<"arriba">>, lines |-> <<>>]]>>

\* C9: botID, botName and the pattern are assigned on the first
\* connection-established event and never change afterwards; a later
\* connection-established event changes neither them nor the store, sends
\* nothing and starts no history fetch
C9_IdentitySetOnce ==
    [][/\ Ready => (botID' = botID /\ botName' = botName /\ extractMsgRE' = extractMsgRE)
       /\ (~Ready /\ ConnectedStep) =>
             (botID' = lastEv'.id /\ botName' = lastEv'.name /\ extractMsgRE' = lastEv'.id)
       /\ (~Ready /\ ~ConnectedStep) => ~Ready'
       /\ (Ready /\ ConnectedStep) =>
             /\ standups' = standups
             /\ sent' = <<>>
             /\ pc' = "idle"
             /\ UNCHANGED <<conversations, history, params, cstandup, fetchErr>>]_vars

\* a second connection-established event, carrying another identity, was
\* received after the backfill filled the store: the identity is the first one
C9_Witness ==
    /\ lastEv.kind = "connected"
    /\ lastEv.id = "B2"
    /\ botID = "B1"
    /\ botName = "arriba"
    /\ extractMsgRE = "B1"
    /\ pc = "idle"
    /\ C1 \in DOMAIN standups
    /\ DOMAIN standups[C1] # {}

\* C10: a message event received while Uninitialized, a message event with
\* an empty conversation identifier and a duplicate connect event each leave
\* the store and the bot identity unchanged and send nothing
C10_DroppedEvents ==
    [][(\/ MessageStep /\ ~Ready
        \/ MessageStep /\ lastEv'.msg.channel = <<>>
        \/ ConnectedStep /\ Ready) =>
          /\ UNCHANGED <<standups, botID, botName, extractMsgRE>>
          /\ sent' = <<>>
          /\ pc' = "idle"]_vars

\* a status update with an empty conversation identifier was received in
\* state Ready, with entries in the store
C10_Witness ==
    /\ lastEv.kind = "message"
    /\ lastEv.msg.channel = <<>>
    /\ lastEv.msg.text = UpdateA
    /\ Ready
    /\ sent = <<>>
    /\ C1 \in DOMAIN standups
    /\ DOMAIN standups[C1] # {}

\* the authors with a status update inside the retention window of the
\* conversation being backfilled
WindowAuthors ==
    {u \in Posters(Head(conversations)) :
        QualifyingMsgs(history, u, extractMsgRE, WindowParams) # {}}

\* C11: when a history fetch fails, retrieveChannelStandup fetches no further
\* page and returns the map accumulated from the earlier pages; retrieveStandups
\* installs what was returned as the conversation's entry, error or not, and
\* goes on with the remaining conversations
C11_FetchErrorKeepsPartial ==
    [][/\ (pc = "fetch" /\ pc' = "ret" /\ fetchErr') =>
             cstandup' = cstandup
       /\ (pc = "ret" /\ fetchErr) =>
             /\ pc' \in {"ret", "loop"}
             /\ pc' = "ret" => UNCHANGED <<cstandup, fetchErr, standups, conversations>>
             /\ pc' = "loop" =>
                   /\ Head(conversations) \in DOMAIN standups'
                   /\ standups'[Head(conversations)] = cstandup
                   /\ conversations' = Tail(conversations)
       /\ (pc = "loop" /\ conversations # <<>> /\ pc' # "loop") =>
             /\ pc' = "fetch"
             /\ cstandup' = EmptyMap
             /\ params' = firstParams(now)
             /\ conversations' = conversations]_vars

\* the fetch of a second page of C1 failed after the first page had put an
\* entry in the map, and G1 is still to be backfilled
C11_Witness ==
    /\ pc = "ret"
    /\ fetchErr
    /\ conversations = <<C1, G1>>
    /\ params.latest # <<UnixSeconds(now)>>
    /\ DOMAIN cstandup # {}

\* the entries of conversation c, none when c is absent
EntriesOf(st, c) == IF c \in DOMAIN st THEN st[c] ELSE EmptyMap

\* C12 as claimed: when a fetch fails, the partial result is discarded: the
\* conversation's entry after the backfill is what it was before, or the
\* complete result, which has a key for every author of the window
C12_PartialDiscarded ==
    [][(pc = "ret" /\ fetchErr /\ pc' = "loop") =>
          \/ EntriesOf(standups', Head(conversations))
                = EntriesOf(standups, Head(conversations))
          \/ DOMAIN EntriesOf(standups', Head(conversations)) = WindowAuthors]_vars

\* C12 as amended: the backfill replaces the conversation's entry in one
\* assignment and touches no other entry; the entry installed is the map
\* retrieveChannelStandup returned: it has a key for every author of the
\* window when no fetch failed, and the keys found before the failing fetch
\* otherwise
C12_InstallReplaces ==
    [][(pc = "ret" /\ pc' = "loop") =>
          /\ DOMAIN standups' = DOMAIN standups \cup {Head(conversations)}
          /\ standups'[Head(conversations)] = cstandup
          /\ \A d \in DOMAIN standups :
                d # Head(conversations) => standups'[d] = standups[d]
          /\ DOMAIN cstandup \subseteq WindowAuthors
          /\ ~fetchErr => DOMAIN cstandup = WindowAuthors]_vars

\* the fetch of a second page of C1 failed: the map to install has the key
\* of U2 and no key for U1, who has a status update in the window too
C12_Witness ==
    /\ pc = "ret"
    /\ fetchErr
    /\ Head(conversations) = C1
    /\ DOMAIN cstandup = {"U2"}
    /\ WindowAuthors = {"U1", "U2"}

\* some line of the text starts, after spaces only, with the mention of id
AddressedLine(text, id) ==
    \E i \in 1 .. Len(text) :
        /\ text[i] = Mention(id)
        /\ \A j \in 1 .. i - 1 :
              (\A k \in j .. i - 1 : text[k] # "\n") => text[j] = " "

\* what the extractor is claimed to accept
Accepted(m, id) ==
    /\ m.type = "message"
    /\ m.subtype = ""
    /\ AddressedLine(m.text, id)
    /\ ~parseSlackTimeStamp(m.timestamp, now).err

\* the text holds one mention of id and, besides it, whitespace only
OnlyMention(text, id) ==
    /\ Cardinality({i \in 1 .. Len(text) : text[i] = Mention(id)}) = 1
    /\ \A i \in 1 .. Len(text) : text[i] = Mention(id) \/ IsSpace(text[i])

\* C13: extractChannelStandupMsg returns ok exactly for the messages of type
\* "message", without subtype, with a parsable timestamp, in which some line
\* is addressed to the bot, with empty text when nothing but the mention is
\* there; a rejected message changes neither the store nor the map the
\* backfill accumulates, and nothing is sent for it
C13_ExtractorRejection ==
    [][/\ (MessageStep /\ Ready /\ HandledChannel(lastEv'.msg.channel)) =>
             LET m == lastEv'.msg
                 ex == extractChannelStandupMsg(extractMsgRE, m, now)
             IN  /\ ex.ok <=> Accepted(m, botID)
                 /\ (Accepted(m, botID) /\ OnlyMention(m.text, botID)) => ex.msg.text = <<>>
                 /\ ~Accepted(m, botID) => (standups' = standups /\ sent' = <<>>)
       /\ (pc = "fetch") =>
             /\ standups' = standups
             /\ sent' = sent
             /\ \A u \in DOMAIN cstandup' :
                   \/ u \in DOMAIN cstandup /\ cstandup'[u] = cstandup[u]
                   \/ \E i \in 1 .. Len(history) :
                         /\ history[i].user = u
                         /\ Accepted(history[i], botID)
                         /\ cstandup'[u]
                               = extractChannelStandupMsg(extractMsgRE, history[i], now).msg]_vars

\* a live message that mentions the bot in the middle of its only line was
\* handled: the store still holds both entries, the old one too, and
\* nothing was sent
C13_Witness ==
    /\ lastEv.kind = "message"
    /\ lastEv.msg.text = <<"a", " ", "<@B1>">>
    /\ lastEv.msg.type = "message"
    /\ lastEv.msg.subtype = ""
    /\ lastEv.msg.timestamp = <<DaySeconds, 2>>
    /\ Ready
    /\ script = <<>>
    /\ DOMAIN standups[C1] = {"U1", "U2"}
    /\ sent = <<>>

\* this step is a round of the loop of retrieveChannelStandup
FetchStep == pc = "fetch" /\ now' = now

\* C14: when the loop goes on to another fetch, the new latest bound is the
\* timestamp of one of the messages that were in bounds, the oldest of the
\* page that ended there, the bound is exclusive and the oldest bound is
\* unchanged; the messages in bounds of the next fetch are exactly those
\* after that page: none is fetched twice, none is skipped
C14_PaginationContinuation ==
    [][(FetchStep /\ pc' = "fetch") =>
          LET inb == InBounds(history, params)
          IN  \E n \in 1 .. Len(inb) - 1 :
                 /\ params'.latest = inb[n].timestamp
                 /\ \A i \in 1 .. n : ~TsLess(inb[i].timestamp, params'.latest)
                 /\ params'.inclusive = FALSE
                 /\ params'.oldest = params.oldest
                 /\ params'.count = params.count
                 /\ InBounds(history, params') = SubSeq(inb, n + 1, Len(inb))
                 /\ cstandup' = scanPage(extractMsgRE, SubSeq(inb, 1, n), 0, cstandup, now)]_vars

\* the window holds three messages and the history a fourth, older than
\* the window; the first page held the two newest, both status updates of
\* U1, of which the scan kept the second: the next fetch, bounded by the
\* timestamp of that second message, has the third message left in bounds
C14_Witness ==
    /\ pc = "fetch"
    /\ Len(history) = 4
    /\ Len(InBounds(history, WindowParams)) = 3
    /\ history[1] = Msg(C1, "U1", UpdateA, <<DaySeconds, 3>>)
    /\ history[2] = Msg(C1, "U1", UpdateA, <<DaySeconds, 2>>)
    /\ history[3].timestamp = <<DaySeconds, 1>>
    /\ params.latest = <<DaySeconds, 2>>
    /\ ~params.inclusive
    /\ InBounds(history, params) = <<history[3]>>
    /\ DOMAIN cstandup = {"U1"}
    /\ cstandup["U1"].ts = Unix(DaySeconds, 2000)

\* C15: a call of retrieveChannelStandup returns; a round of its loop
\* returns with the error when the fetch fails, returns the map unchanged and
\* no error when the page is empty, returns after scanning when the page was
\* the last one, and otherwise goes on with strictly fewer messages left in
\* bounds; once it has returned no fetch follows for that call
C15_PaginationTerminates ==
    /\ [][FetchStep =>
             LET inb == InBounds(history, params)
             IN  \/ /\ pc' = "ret"
                    /\ fetchErr'
                    /\ cstandup' = cstandup
                 \/ /\ pc' = "ret"
                    /\ ~fetchErr'
                    /\ cstandup' = scanPage(extractMsgRE, inb, 0, cstandup, now)
                 \/ /\ pc' = "fetch"
                    /\ ~fetchErr'
                    /\ inb # <<>>
                    /\ InBounds(history', params') # <<>>
                    /\ Len(InBounds(history', params')) < Len(inb)
                 \/ UNCHANGED vars]_vars
    /\ [][pc = "ret" => (pc' \in {"ret", "loop"} /\ history' \in {history, <<>>})]_vars
    /\ [](pc = "fetch" => <>(pc = "ret"))

\* retrieveChannelStandup has returned without error after more than one
\* fetch
C15_Witness ==
    /\ pc = "ret"
    /\ ~fetchErr
    /\ params.latest # <<UnixSeconds(now)>>
    /\ Len(InBounds(history, WindowParams)) > 1

\* this step handles a message event of a handled conversation, received in
\* state Ready, that the extractor accepts
AcceptedStep ==
    /\ MessageStep
    /\ Ready
    /\ lastEv'.msg.channel # <<>>
    /\ Head(lastEv'.msg.channel) \in {"C", "G"}
    /\ extractChannelStandupMsg(extractMsgRE, lastEv'.msg, now).ok

\* ... and its extracted text is empty: a status request
RequestStep ==
    AcceptedStep /\ extractChannelStandupMsg(extractMsgRE, lastEv'.msg, now).msg.text = <<>>

\* C16: handling a status request removes from its conversation the entries
\* older than the retention bound and nothing else, adds and overwrites no
\* entry, creates no conversation entry, and sends one message: the digest
\* of the entries that are left, none of them older than the bound, or the
\* prompt when none is left
C16_StatusRequestReadsPruned ==
    [][RequestStep =>
          LET c == lastEv'.msg.channel
              left == EntriesOf(standups', c)
          IN  /\ DOMAIN standups' = DOMAIN standups
              /\ \A d \in DOMAIN standups : d # c => standups'[d] = standups[d]
              /\ DOMAIN left = DOMAIN EntriesOf(standups, c) \ StaleIn(standups, c, now)
              /\ \A u \in DOMAIN left : left[u] = standups[c][u]
              /\ Len(sent') = 1
              /\ sent'[1].channel = c
              /\ sent'[1].text.kind = "nostandup" => DOMAIN left = {}
              /\ sent'[1].text.kind # "nostandup" =>
                    /\ sent'[1].text.kind = "status"
                    /\ {[text |-> l.text, ts |-> l.ts] :
                          l \in {sent'[1].text.lines[i] :
                                    i \in 1 .. Len(sent'[1].text.lines)}}
                          = {left[u] : u \in DOMAIN left}
                    /\ \A i \in 1 .. Len(sent'[1].text.lines) :
                          ~StrictlyOlder(sent'[1].text.lines[i].ts, OldestAllowed(now))]_vars

\* on day 2 a status request of U1 in C1 got a digest of one line, U1's own
\* status of day 1, which is still stored as it was
C16_Witness ==
    /\ LastIsRequest
    /\ lastEv.msg.channel = C1
    /\ lastEv.msg.user = "U1"
    /\ now = Unix(2 * DaySeconds, 0)
    /\ C1 \in DOMAIN standups
    /\ DOMAIN standups[C1] = {"U1"}
    /\ standups[C1]["U1"] = [ts |-> Unix(DaySeconds, 1000), text |-> <<"a">>]
    /\ Len(sent) = 1
    /\ sent[1].text.kind = "status"
    /\ Len(sent[1].text.lines) = 1
    /\ sent[1].text.lines[1].ts = Unix(DaySeconds, 1000)

\* C17: a message event whose conversation identifier does not start with
\* 'C' or 'G' changes nothing in the store and sends nothing, whatever its
\* text
C17_ClassificationGates ==
    [][(/\ MessageStep
        /\ \/ lastEv'.msg.channel = <<>>
           \/ Head(lastEv'.msg.channel) \notin {"C", "G"}) =>
          /\ standups' = standups
          /\ sent' = <<>>
          /\ pc' = "idle"]_vars

\* a status update sent as a direct message was received in state Ready on
\* day 2, with an entry of C1 older than the retention bound in the store:
\* nothing was sent, D1 has no entry and the old entry is still there
C17_Witness ==
    /\ lastEv.kind = "message"
    /\ lastEv.msg.channel = D1
    /\ lastEv.msg.text = UpdateA
    /\ Ready
    /\ now = Unix(2 * DaySeconds, 0)
    /\ sent = <<>>
    /\ D1 \notin DOMAIN standups
    /\ StaleIn(standups, C1, now) # {}

\* the conversations the connection-established event lastEv listed
Joined == IF lastEv.kind = "connected" THEN joinedConversations(lastEv) ELSE <<>>

\* C18: while the backfill is under way the last event received is the
\* connection-established one, the conversations before the current one have
\* their result installed and the current and later ones have not; no event
\* is taken from the queue, nothing is sent and the identity does not change
\* until the last result is installed; events are taken from the head of the
\* queue only, one at a time
C18_BackfillSequential ==
    /\ [](pc \in {"loop", "fetch", "ret"} =>
             /\ lastEv.kind = "connected"
             /\ botID = lastEv.id
             /\ \E k \in 0 .. Len(Joined) :
                   /\ conversations = SubSeq(Joined, k + 1, Len(Joined))
                   /\ \A i \in 1 .. k : Joined[i] \in DOMAIN standups
                   /\ \A i \in k + 1 .. Len(Joined) : Joined[i] \notin DOMAIN standups)
    /\ [][/\ pc \in {"loop", "fetch", "ret"} =>
                UNCHANGED <<lastEv, script, sent, botID, botName, extractMsgRE>>
          /\ script' # script =>
                /\ pc = "idle"
                /\ script # <<>>
                /\ lastEv' = Head(script)
                /\ script' = Tail(script)
          /\ (pc = "idle" /\ lastEv' # lastEv) => script' # script
          /\ (pc = "idle" /\ botID = "" /\ script' # script /\ Head(script).kind = "connected") =>
                /\ pc' = "loop"
                /\ conversations' = joinedConversations(Head(script))
          /\ (pc = "fetch" /\ pc' # pc) => (pc' = "ret" /\ conversations' = conversations)
          /\ (pc = "ret" /\ pc' # pc) =>
                /\ pc' = "loop"
                /\ standups' = MapPut(standups, Head(conversations), cstandup)
                /\ conversations' = Tail(conversations)
          /\ (pc = "loop" /\ pc' # pc) =>
                /\ conversations' = conversations
                /\ pc' = IF conversations = <<>> THEN "idle" ELSE "fetch"]_vars

\* a status update and a status request in G1 were queued behind the
\* connection-established event: both groups have been backfilled, then the
\* update was recorded, then the request got the digest with that update
C18_Witness ==
    /\ pc = "idle"
    /\ script = <<>>
    /\ lastEv = MessageEvent(Msg(G1, "U1", Request, <<DaySeconds, 0>>))
    /\ DOMAIN standups = {G1, G2}
    /\ DOMAIN standups[G2] # {}
    /\ DOMAIN standups[G1] = {"U1"}
    /\ standups[G1]["U1"].ts = Unix(DaySeconds, 2000)
    /\ Len(sent) = 1
    /\ sent[1].text.kind = "status"
    /\ Len(sent[1].text.lines) = 1
    /\ sent[1].text.lines[1].ts = Unix(DaySeconds, 2000)

\* C19: no entry of the store or of the map the backfill accumulates has
\* an empty text; when retrieveChannelStandup returns without error its map
\* has a key for every author with a status update in the window, status
\* requests of that author in the window or not; a live status request
\* leaves every entry it finds after it as it was
C19_NoEmptyStatus ==
    /\ [](/\ \A c \in DOMAIN standups : \A u \in DOMAIN standups[c] :
                standups[c][u].text # <<>>
          /\ \A u \in DOMAIN cstandup : cstandup[u].text # <<>>
          /\ (pc = "ret" /\ ~fetchErr) => DOMAIN cstandup = WindowAuthors)
    /\ [][RequestStep =>
             \A c \in DOMAIN standups' : \A u \in DOMAIN standups'[c] :
                /\ c \in DOMAIN standups
                /\ u \in DOMAIN standups[c]
                /\ standups'[c][u] = standups[c][u]]_vars

\* the history of C1 holds a status request of U1 above an older status
\* update of U1: retrieveChannelStandup returned the update
C19_Witness ==
    /\ pc = "ret"
    /\ ~fetchErr
    /\ history = <<Msg(C1, "U1", Request, <<DaySeconds, 2>>),
                   Msg(C1, "U1", UpdateA, <<DaySeconds, 1>>)>>
    /\ cstandup = MapPut(EmptyMap, "U1", [ts |-> Unix(DaySeconds, 1000), text |-> <<"a">>])

\* C20 as claimed: in state Ready, right after a status request or a status
\* update in conversation c has been handled, no entry of c is older than the
\* retention bound
C20_FreshAfterHandling ==
    [][AcceptedStep => StaleIn(standups', lastEv'.msg.channel, now) = {}]_vars

\* C20 as amended: ... no entry of c is older than the retention bound,
\* except the entry a status update has just written when the update's own
\* timestamp is older than the bound
C20_FreshExceptOwnUpdate ==
    [][AcceptedStep =>
          LET smsg == extractChannelStandupMsg(extractMsgRE, lastEv'.msg, now).msg
          IN  StaleIn(standups', lastEv'.msg.channel, now) \subseteq
                 IF smsg.text # <<>> /\ StrictlyOlder(smsg.ts, OldestAllowed(now))
                 THEN {lastEv'.msg.user}
                 ELSE {}]_vars

\* on day 2 a status update of U1 stamped day 0 was handled in C1: U1's
\* entry is the only one of C1 older than the retention bound
C20_Witness ==
    /\ LastIsUpdate
    /\ lastEv.msg.channel = C1
    /\ lastEv.msg.user = "U1"
    /\ lastEv.msg.timestamp = <<0, 0>>
    /\ now = Unix(2 * DaySeconds, 0)
    /\ DOMAIN standups[C1] = {"U1", "U2"}
    /\ StaleIn(standups, C1, now) = {"U1"}

====
